---- MODULE Spec2Model ----
(***************************************************************************)
(* resqpy.multiprocessing: function_multiprocessing and rm_tree.           *)
(*                                                                         *)
(* The orchestrating thread of function_multiprocessing is one process     *)
(* whose position is pc; the N submitted dask futures are N task           *)
(* processes that resolve in any order.  Python positions are 0-based:     *)
(* list position p of the source is element p + 1 of a TLA+ sequence, and  *)
(* the value written to kwargs["index"] is the 0-based one.                *)
(***************************************************************************)
EXTENDS Integers, Sequences, FiniteSets

\* Largest length of kwargs_list explored.
MaxN == 3
\* Number of workers of a cluster whose workers have registered.
MaxWorkers == 1
\* Largest number of levels below a directory handed to rm_tree.
MaxDepth == 2
\* Number of interpretation objects compared with each other.
MaxInterps == 3

VARIABLES
    pc,               \* position of the orchestrating thread
    i,                \* loop counter of the loop the thread is in
    raisedAt,         \* the statement an exception escaped from ("" if none)
    kwargs_list,      \* the caller's list: element p names the dict object at position p - 1
    heap,             \* dict object -> its "tmp_dir" and "index" keys
    tmp_dirs,         \* the list tmp_dirs (directory names)
    fs,               \* the filesystem below the temporary root: set of entries
    workers,          \* number of workers the scheduler knows
    configured,       \* number of workers set_numba_threads has run on
    consolidate,      \* the consolidate argument
    disk,             \* the epc file at recombined_epc
    status,           \* future -> "none", "running", "finished", "error"
    args,             \* future -> the keyword arguments it was submitted with
    ret,              \* future -> the 4-tuple its function returned
    results,          \* the list results
    success_list,
    epc_list,
    uuids_list,
    model_recombined, \* the in-memory destination model
    unconfigured,     \* futures whose function ran on a worker set_numba_threads had not run on
    rm_calls,         \* the calls of rm_tree made so far: the directory and the paths it held
    interps,          \* the interpretation objects of strata.py constructed so far
    answers,          \* what is_equivalent returned for each pair of them
    xml,              \* the thickness nodes of the tree create_xml built
    loaded            \* the thickness attributes _load_from_xml set on a new object

\* The variables of strata.py.
strata_vars == <<interps, answers, xml, loaded>>

vars == <<pc, i, raisedAt, kwargs_list, heap, tmp_dirs, fs, workers, configured,
          consolidate, disk, status, args, ret, results, success_list, epc_list,
          uuids_list, model_recombined, unconfigured, rm_calls, strata_vars>>

N == Len(kwargs_list)
Tasks == 1..N

-----------------------------------------------------------------------------
(* Values *)

\* Python None where an epc path or a dict key is expected.
None == 0
\* The list of uuids, or None.
NoUuids == [none |-> TRUE, ids |-> <<>>]
SomeUuids(s) == [none |-> FALSE, ids |-> s]

\* A uuid no store holds.
MissingUuid == 99
\* The part a pre-existing destination epc holds; it is equivalent to the
\* shared-class part every task store holds.
PreExisting == {[uuid |-> 50, cls |-> 0, src |-> 0, refs |-> {}]}

\* A destination that already holds a part under the uuid of the shared-class
\* part of store 1.
PreHeld == {[uuid |-> 1, cls |-> 0, src |-> 0, refs |-> {}]}

\* The epc written by future t: one part of the equivalence class 0 that all
\* task stores share (distinct uuid per store) and one part of a class of its
\* own, which has a relationship to the first.  src is the future that wrote
\* the part, refs the uuids its relationships reference.
Store(t) == {[uuid |-> t, cls |-> 0, src |-> t, refs |-> {}],
             [uuid |-> 10 + t, cls |-> t, src |-> t, refs |-> {t}]}

NoFile == [exists |-> FALSE, parts |-> {}]
EpcFile(ps) == [exists |-> TRUE, parts |-> ps]

NoModel == [open |-> FALSE, parts |-> {}, alias |-> {}]
\* A model opened without loading the parts of its file.
OpenModelEmpty(ps) == [open |-> TRUE, parts |-> {}, alias |-> {}]
OpenModel(ps) == [open |-> TRUE, parts |-> ps, alias |-> {}]

NoRet == [index |-> -1, success |-> FALSE, epc |-> None, uuids |-> NoUuids]
NoArgs == [tmp_dir |-> None, index |-> -1]

\* An xml node that is not in the tree; the tree before create_xml.
NoNode == [present |-> FALSE, text |-> <<>>, uom |-> None]
NoXml == [InterpretedFeature |-> None, MinThickness |-> NoNode, MaxThickness |-> NoNode]

\* The thickness attributes of an object constructed with a uuid only.
NoLoaded == [min_thickness |-> None, max_thickness |-> None, thickness_uom |-> None]

\* No object of strata.py exists.
NoStrata ==
    /\ interps = <<>>
    /\ answers = <<>>
    /\ xml = NoXml
    /\ loaded = NoLoaded

-----------------------------------------------------------------------------
(* rm_tree *)

Last(s) == s[Len(s)]

\* The entries directly inside directory path.
Children(f, path) ==
    {e \in f : /\ Len(e.path) = Len(path) + 1
               /\ SubSeq(e.path, 1, Len(path)) = path}

\* path.iterdir() yields the children in an order the OS chooses: by name,
\* ascending or descending.
NextChild(cs, rev) ==
    CHOOSE c \in cs : \A o \in cs :
        IF rev THEN Last(o.path) <= Last(c.path) ELSE Last(c.path) <= Last(o.path)

RECURSIVE rm_tree(_, _, _, _)
RECURSIVE rm_children(_, _, _, _)

\* A loop that unlinks the files and does not recurse into the other children.
rm_children_files_only(f, todo, denied, rev) ==
    IF \E c \in todo : c.kind = "file" /\ c.path \in denied
    THEN [fs |-> f, ok |-> FALSE]
    ELSE [fs |-> f \ {c \in todo : c.kind = "file"}, ok |-> TRUE]

\* The loop over path.iterdir(): unlink files, recurse into everything else.
\* denied is the set of paths whose unlink or rmdir the OS refuses; the
\* exception leaves the loop (ok = FALSE).
rm_children(f, todo, denied, rev) ==
    IF todo = {} THEN [fs |-> f, ok |-> TRUE]
    ELSE LET child == NextChild(todo, rev)
             r == IF child.kind = "file"
                  THEN IF child.path \in denied
                       THEN [fs |-> f, ok |-> FALSE]
                       ELSE [fs |-> f \ {child}, ok |-> TRUE]
                  ELSE rm_tree(f, child.path, denied, rev)
         IN  IF r.ok THEN rm_children(r.fs, todo \ {child}, denied, rev) ELSE r

\* rm_tree without its last statement.
RmDirSkipped(f, path, denied) == [fs |-> f, ok |-> TRUE]

\* path.rmdir() after the loop: refused by the OS, on a directory that is not
\* empty and on a path that is a symbolic link.
RmDir(f, path, denied) ==
    IF \/ path \in denied
       \/ Children(f, path) # {}
       \/ ~\E e \in f : e.path = path /\ e.kind = "dir"
    THEN [fs |-> f, ok |-> FALSE]
    ELSE [fs |-> {e \in f : e.path # path}, ok |-> TRUE]

\* The directory outside every temporary directory that symbolic links of the
\* model point to.
Outside == <<0>>

\* The path the OS follows path to: the target of a symbolic link, the path
\* itself otherwise.
Resolve(f, path) ==
    IF \E e \in f : e.path = path /\ e.kind = "link" THEN Outside ELSE path

\* path.iterdir() and the calls on each child follow a symbolic link at path.
rm_tree(f, path, denied, rev) ==
    LET real == Resolve(f, path)
    IN  IF ~\E e \in f : e.path = real /\ e.kind = "dir"
        THEN [fs |-> f, ok |-> FALSE]
        ELSE LET r == rm_children(f, Children(f, real), denied, rev)
             IN  IF r.ok THEN RmDir(r.fs, path, denied) ELSE r

\* All entries of the tree rooted at directory d of the temporary root.
Tree(f, d) == {e \in f : e.path[1] = d}

-----------------------------------------------------------------------------
(* State after the call is entered *)

\* Lists of dict objects up to renaming: the object at a position is one seen
\* before or the next new one.
RECURSIVE MaxOf(_)
MaxOf(s) == IF s = <<>> THEN 0
            ELSE LET m == MaxOf(SubSeq(s, 1, Len(s) - 1))
                 IN  IF Last(s) > m THEN Last(s) ELSE m

KwargsLists ==
    {s \in UNION {[1..n -> 1..MaxN] : n \in 0..MaxN} :
        \A p \in 1..Len(s) : s[p] <= MaxOf(SubSeq(s, 1, p - 1)) + 1}

Init ==
    /\ pc = "alloc"
    /\ i = 0
    /\ raisedAt = ""
    /\ kwargs_list \in KwargsLists
    /\ heap = [o \in 1..MaxN |-> NoArgs]
    /\ tmp_dirs = <<>>
    /\ fs = {}
    /\ workers \in {0, MaxWorkers}
    /\ configured = 0
    /\ consolidate \in BOOLEAN
    /\ disk \in {NoFile, EpcFile(PreExisting)}
    /\ status = [t \in 1..MaxN |-> "none"]
    /\ args = [t \in 1..MaxN |-> NoArgs]
    /\ ret = [t \in 1..MaxN |-> NoRet]
    /\ results = <<>>
    /\ success_list = <<>>
    /\ epc_list = <<>>
    /\ uuids_list = <<>>
    /\ model_recombined = NoModel
    /\ unconfigured = {}
    /\ rm_calls = <<>>
    /\ NoStrata

\* An exception that is noted and after which the call goes on to line 93.
RaiseSwallowed(at) ==
    /\ pc' = "sort"
    /\ raisedAt' = at

Raise(at) ==
    /\ pc' = "raised"
    /\ raisedAt' = at

-----------------------------------------------------------------------------
(* Lines 67-74: the temporary directories *)

\* One iteration: mkdtemp returns a name not used before; the dict object at
\* this position gets its tmp_dir and index keys (over)written.
Alloc ==
    /\ pc = "alloc"
    /\ i < N
    /\ LET dirpath == i + 1
       IN  /\ fs' = fs \cup {[path |-> <<dirpath>>, kind |-> "dir"]}
           /\ heap' = [heap EXCEPT ![kwargs_list[i + 1]] =
                           [tmp_dir |-> dirpath, index |-> i]]
           /\ tmp_dirs' = Append(tmp_dirs, dirpath)
    /\ i' = i + 1
    /\ UNCHANGED <<pc, raisedAt, kwargs_list, workers, configured, consolidate, disk,
                   status, args, ret, results, success_list, epc_list, uuids_list,
                   model_recombined, unconfigured, rm_calls, strata_vars>>

AllocExit ==
    /\ pc = "alloc"
    /\ i = N
    /\ pc' = "query"
    /\ i' = 0
    /\ UNCHANGED <<raisedAt, kwargs_list, heap, tmp_dirs, fs, workers, configured,
                   consolidate, disk, status, args, ret, results, success_list,
                   epc_list, uuids_list, model_recombined, unconfigured, rm_calls,
                   strata_vars>>

-----------------------------------------------------------------------------
(* Lines 76-89: the cluster *)

\* Lines 76-80.  list(...values())[0] raises IndexError when the scheduler
\* knows no worker.
Query ==
    /\ pc = "query"
    /\ IF workers = 0
       THEN Raise("query")
       ELSE pc' = "wait" /\ UNCHANGED raisedAt
    /\ UNCHANGED <<i, kwargs_list, heap, tmp_dirs, fs, workers, configured, consolidate,
                   disk, status, args, ret, results, success_list, epc_list,
                   uuids_list, model_recombined, unconfigured, rm_calls, strata_vars>>

\* Line 86: client.wait_for_workers() with its default argument.
WaitForWorkers ==
    /\ pc = "wait"
    /\ pc' = "run"
    /\ UNCHANGED <<i, raisedAt, kwargs_list, heap, tmp_dirs, fs, workers, configured,
                   consolidate, disk, status, args, ret, results, success_list,
                   epc_list, uuids_list, model_recombined, unconfigured, rm_calls,
                   strata_vars>>

\* Line 87: client.run(set_numba_threads) runs on the workers known now.
RunSetNumbaThreads ==
    /\ pc = "run"
    /\ configured' = workers
    /\ pc' = "submit"
    /\ UNCHANGED <<i, raisedAt, kwargs_list, heap, tmp_dirs, fs, workers, consolidate,
                   disk, status, args, ret, results, success_list, epc_list,
                   uuids_list, model_recombined, unconfigured, rm_calls, strata_vars>>

\* Line 88, one element of the comprehension: **kwargs reads the dict object
\* at this position as it is now.
Submit ==
    /\ pc = "submit"
    /\ i < N
    /\ args' = [args EXCEPT ![i + 1] = heap[kwargs_list[i + 1]]]
    /\ status' = [status EXCEPT ![i + 1] = "running"]
    /\ i' = i + 1
    /\ UNCHANGED <<pc, raisedAt, kwargs_list, heap, tmp_dirs, fs, workers, configured,
                   consolidate, disk, ret, results, success_list, epc_list, uuids_list,
                   model_recombined, unconfigured, rm_calls, strata_vars>>

\* The thread starts calling call.result() before every future is submitted.
SubmitExitEarly ==
    /\ pc = "submit"
    /\ i <= N
    /\ pc' = "await"
    /\ i' = 0
    /\ UNCHANGED <<raisedAt, kwargs_list, heap, tmp_dirs, fs, workers, configured,
                   consolidate, disk, status, args, ret, results, success_list,
                   epc_list, uuids_list, model_recombined, unconfigured, rm_calls,
                   strata_vars>>

SubmitExit ==
    /\ pc = "submit"
    /\ i = N
    /\ pc' = "await"
    /\ i' = 0
    /\ UNCHANGED <<raisedAt, kwargs_list, heap, tmp_dirs, fs, workers, configured,
                   consolidate, disk, status, args, ret, results, success_list,
                   epc_list, uuids_list, model_recombined, unconfigured, rm_calls,
                   strata_vars>>

\* What the function of future t may return as (success, epc_file, uuid_list);
\* the index it returns is the one it was given.
Outcomes(t) ==
    {[success |-> FALSE, epc |-> None, uuids |-> NoUuids],
     [success |-> FALSE, epc |-> t, uuids |-> NoUuids],
     [success |-> TRUE, epc |-> None, uuids |-> NoUuids],
     [success |-> TRUE, epc |-> t, uuids |-> NoUuids],
     [success |-> TRUE, epc |-> t, uuids |-> SomeUuids(<<t>>)],
     [success |-> TRUE, epc |-> t, uuids |-> SomeUuids(<<MissingUuid>>)]}

\* What a function that wrote an epc leaves in its tmp_dir d: the epc file and
\* a subdirectory with one file.
Written(d) == {[path |-> <<d, 1>>, kind |-> "file"],
               [path |-> <<d, 2>>, kind |-> "dir"],
               [path |-> <<d, 2, 1>>, kind |-> "file"]}

\* The scheduler runs the function of future t on worker w, one of the
\* workers it knows; set_numba_threads has run on workers 1..configured.
RunsOn(t, w) ==
    unconfigured' = IF w > configured THEN unconfigured \cup {t} ELSE unconfigured

\* The function of future t returns on its worker.  Futures are released when
\* the client of line 85 closes, so they resolve while it is open.
TaskFinish(t) ==
    /\ pc \in {"submit", "await"}
    /\ status[t] = "running"
    /\ \E w \in 1..workers : RunsOn(t, w)
    /\ \E o \in Outcomes(t) :
        /\ ret' = [ret EXCEPT ![t] = [index |-> args[t].index, success |-> o.success,
                                      epc |-> o.epc, uuids |-> o.uuids]]
        /\ fs' = IF o.epc = None THEN fs ELSE fs \cup Written(args[t].tmp_dir)
    /\ status' = [status EXCEPT ![t] = "finished"]
    /\ UNCHANGED <<pc, i, raisedAt, kwargs_list, heap, tmp_dirs, workers, configured,
                   consolidate, disk, args, results, success_list, epc_list,
                   uuids_list, model_recombined, rm_calls, strata_vars>>

\* The function of future t raises on its worker.
TaskError(t) ==
    /\ pc \in {"submit", "await"}
    /\ status[t] = "running"
    /\ \E w \in 1..workers : RunsOn(t, w)
    /\ status' = [status EXCEPT ![t] = "error"]
    /\ UNCHANGED <<pc, i, raisedAt, kwargs_list, heap, tmp_dirs, fs, workers, configured,
                   consolidate, disk, args, ret, results, success_list, epc_list,
                   uuids_list, model_recombined, rm_calls, strata_vars>>

\* A call.result() that returns without waiting for its future.
ResultNoWait(t) == TRUE

\* Future t has resolved: its call.result() returns or raises.
Resolved(t) == status[t] \in {"finished", "error"}

\* Line 89, one element of the comprehension: call.result() blocks until the
\* future has resolved and re-raises the exception of a future in error.
Await ==
    /\ pc = "await"
    /\ i < N
    /\ Resolved(i + 1)
    /\ IF status[i + 1] = "error"
       THEN Raise("await") /\ UNCHANGED <<i, results>>
       ELSE /\ results' = Append(results, ret[i + 1])
            /\ i' = i + 1
            /\ UNCHANGED <<pc, raisedAt>>
    /\ UNCHANGED <<kwargs_list, heap, tmp_dirs, fs, workers, configured, consolidate,
                   disk, status, args, ret, success_list, epc_list, uuids_list,
                   model_recombined, unconfigured, rm_calls, strata_vars>>

AwaitExit ==
    /\ pc = "await"
    /\ i = N
    /\ pc' = "sort"
    /\ i' = 0
    /\ UNCHANGED <<raisedAt, kwargs_list, heap, tmp_dirs, fs, workers, configured,
                   consolidate, disk, status, args, ret, results, success_list,
                   epc_list, uuids_list, model_recombined, unconfigured, rm_calls,
                   strata_vars>>

-----------------------------------------------------------------------------
(* Lines 93-99: sorting *)

\* sorted(results, key = lambda x: x[0]): stable, ascending by index.
RECURSIVE Insert(_, _)
Insert(s, x) ==
    IF s = <<>> THEN <<x>>
    ELSE IF Last(s).index <= x.index THEN Append(s, x)
    ELSE Append(Insert(SubSeq(s, 1, Len(s) - 1), x), Last(s))

\* Line 94 without the sort: the results as call.result() delivered them.
NotSorted(s) == s

RECURSIVE sorted(_)
sorted(s) ==
    IF s = <<>> THEN <<>>
    ELSE Insert(sorted(SubSeq(s, 1, Len(s) - 1)), Last(s))

Sort ==
    /\ pc = "sort"
    /\ LET rs == sorted(results)
       IN  /\ results' = rs
           /\ success_list' = [p \in 1..Len(rs) |-> rs[p].success]
           /\ epc_list' = [p \in 1..Len(rs) |-> rs[p].epc]
           /\ uuids_list' = [p \in 1..Len(rs) |-> rs[p].uuids]
    /\ pc' = "open"
    /\ UNCHANGED <<i, raisedAt, kwargs_list, heap, tmp_dirs, fs, workers, configured,
                   consolidate, disk, status, args, ret, model_recombined,
                   unconfigured, rm_calls, strata_vars>>

-----------------------------------------------------------------------------
(* Lines 101-116: recombination *)

\* Lines 101-105.  Model(epc_file) of an existing file either loads it or
\* raises (a file that is no readable epc); new_model starts empty.
OpenDestination ==
    /\ pc = "open"
    /\ \/ /\ disk.exists
          /\ model_recombined' = OpenModel(disk.parts)
          /\ pc' = "merge"
          /\ UNCHANGED raisedAt
       \/ /\ disk.exists
          /\ Raise("open")
          /\ UNCHANGED model_recombined
       \/ /\ ~disk.exists
          /\ model_recombined' = OpenModel({})
          /\ pc' = "merge"
          /\ UNCHANGED raisedAt
    /\ UNCHANGED <<i, kwargs_list, heap, tmp_dirs, fs, workers, configured, consolidate,
                   disk, status, args, ret, results, success_list, epc_list,
                   uuids_list, unconfigured, rm_calls, strata_vars>>

\* model.uuids(): the uuids of all parts of a model, ascending.
RECURSIVE uuids_of(_)
uuids_of(parts) ==
    IF parts = {} THEN <<>>
    ELSE LET p == CHOOSE q \in parts : \A o \in parts : q.uuid <= o.uuid
         IN  <<p.uuid>> \o uuids_of(parts \ {p})

\* The uuid that uuid stands for in model m: the one it was noted as
\* equivalent to, or itself.
Target(m, uuid) ==
    IF \E al \in m.alias : al[1] = uuid
    THEN (CHOOSE al \in m.alias : al[1] = uuid)[2]
    ELSE uuid

\* A part copied with its relationships as they are in the other model.
NotRewritten(m, part) == part

\* The part as it is added to model m: its relationships reference the parts
\* of m that the referenced uuids stand for.
Rewritten(m, part) == [part EXCEPT !.refs = {Target(m, r) : r \in @}]

\* No check for a uuid the destination already holds.
HeldIgnored(m, uuid) == {}

\* The parts model m holds under uuid.
Held(m, uuid) == {q \in m.parts : q.uuid = uuid}

\* A copy that always adds the part, under a new uuid when the uuid is taken.
copy_always_adds(m, other, uuid, cons) ==
    IF ~\E p \in other : p.uuid = uuid THEN [m |-> m, ok |-> FALSE]
    ELSE LET part == CHOOSE p \in other : p.uuid = uuid
             added == IF \E q \in m.parts : q.uuid = uuid
                      THEN [part EXCEPT !.uuid = @ + 100]
                      ELSE part
         IN  [m |-> [m EXCEPT !.parts = @ \cup {added}], ok |-> TRUE]

\* Model.copy_uuid_from_other_model(model, uuid, consolidate): a uuid the other
\* model does not hold is an error; a uuid the destination already holds adds
\* nothing; with consolidate, a part equivalent to one of the destination is
\* not added and its uuid is noted as equivalent to that part's; otherwise the
\* part is added, its relationships referencing the parts of the destination.
copy_uuid_from_other_model(m, other, uuid, cons) ==
    IF ~\E p \in other : p.uuid = uuid THEN [m |-> m, ok |-> FALSE]
    ELSE LET part == CHOOSE p \in other : p.uuid = uuid
             equivalent == {q \in m.parts : q.cls = part.cls}
         IN  IF Held(m, uuid) # {} THEN [m |-> m, ok |-> TRUE]
             ELSE IF cons /\ equivalent # {}
             THEN LET q == CHOOSE q \in equivalent :
                               \A o \in equivalent : q.uuid <= o.uuid
                  IN  [m |-> [m EXCEPT !.alias = @ \cup {<<uuid, q.uuid>>}],
                       ok |-> TRUE]
             ELSE [m |-> [m EXCEPT !.parts = @ \cup {Rewritten(m, part)}],
                   ok |-> TRUE]

\* Lines 115-116: the loop over uuids; an exception leaves it.
RECURSIVE CopyUuids(_, _, _, _)
CopyUuids(m, other, ids, cons) ==
    IF ids = <<>> THEN [m |-> m, ok |-> TRUE]
    ELSE LET r == copy_uuid_from_other_model(m, other, Head(ids), cons)
         IN  IF r.ok THEN CopyUuids(r.m, other, Tail(ids), cons) ELSE r

\* Line 116 with consolidate = True whatever the argument.
ConsolidateAlways == TRUE

\* Line 116 with consolidate = False whatever the argument.
ConsolidateNever == FALSE

\* Line 116: consolidate = consolidate.
ConsolidateArg == consolidate

\* Lines 112-114 without the test of line 113: always all uuids of the model.
UuidsAlways(other, uuids) == uuids_of(other)

\* Lines 112-114.
UuidsToCopy(other, uuids) == IF uuids.none THEN uuids_of(other) ELSE uuids.ids

\* The loop without the test of line 109.
NeverSkipped(epc) == FALSE

\* Line 109: if epc is None: continue.
Skipped(epc) == epc = None

\* Lines 108-116, one iteration.  Model(epc_file = epc) loads the epc the
\* future wrote or raises (the file is missing or no readable epc).
Merge ==
    /\ pc = "merge"
    /\ i < Len(epc_list)
    /\ LET epc == epc_list[i + 1]
       IN  \/ /\ Skipped(epc)
              /\ i' = i + 1
              /\ UNCHANGED <<pc, raisedAt, model_recombined>>
           \/ /\ ~Skipped(epc)
              /\ Raise("merge")
              /\ UNCHANGED <<i, model_recombined>>
           \/ /\ ~Skipped(epc)
              /\ LET r == CopyUuids(model_recombined, Store(epc),
                                    UuidsToCopy(Store(epc), uuids_list[i + 1]),
                                    ConsolidateArg)
                 IN  /\ model_recombined' = r.m
                     /\ IF r.ok
                        THEN i' = i + 1 /\ UNCHANGED <<pc, raisedAt>>
                        ELSE Raise("merge") /\ UNCHANGED i
    /\ UNCHANGED <<kwargs_list, heap, tmp_dirs, fs, workers, configured, consolidate,
                   disk, status, args, ret, results, success_list, epc_list,
                   uuids_list, unconfigured, rm_calls, strata_vars>>

MergeExit ==
    /\ pc = "merge"
    /\ i = Len(epc_list)
    /\ pc' = "cleanup"
    /\ i' = 0
    /\ UNCHANGED <<raisedAt, kwargs_list, heap, tmp_dirs, fs, workers, configured,
                   consolidate, disk, status, args, ret, results, success_list,
                   epc_list, uuids_list, model_recombined, unconfigured, rm_calls,
                   strata_vars>>

-----------------------------------------------------------------------------
(* Lines 118-127: cleanup, store, return *)

\* What the OS may refuse while directory d is removed: nothing, or the unlink
\* of one file.
Refusals(f, d) == {{}} \cup {{e.path} : e \in {x \in Tree(f, d) : x.kind = "file"}}

\* The record of a call rm_tree(d) made when the filesystem is f.
Called(f, d) == [dir |-> d, held |-> {e.path : e \in Tree(f, d)}]

\* Line 120: the element of tmp_dirs the loop is at.
TmpDir == tmp_dirs[i + 1]

\* Lines 120-121, one iteration.
Cleanup ==
    /\ pc = "cleanup"
    /\ i < Len(tmp_dirs)
    /\ \E denied \in Refusals(fs, TmpDir), rev \in BOOLEAN :
        LET r == rm_tree(fs, <<TmpDir>>, denied, rev)
        IN  /\ fs' = r.fs
            /\ IF r.ok
               THEN i' = i + 1 /\ UNCHANGED <<pc, raisedAt>>
               ELSE Raise("cleanup") /\ UNCHANGED i
    /\ rm_calls' = Append(rm_calls, Called(fs, TmpDir))
    /\ UNCHANGED <<kwargs_list, heap, tmp_dirs, workers, configured, consolidate, disk,
                   status, args, ret, results, success_list, epc_list, uuids_list,
                   model_recombined, unconfigured, strata_vars>>

CleanupExit ==
    /\ pc = "cleanup"
    /\ i = Len(tmp_dirs)
    /\ pc' = "store"
    /\ i' = 0
    /\ UNCHANGED <<raisedAt, kwargs_list, heap, tmp_dirs, fs, workers, configured,
                   consolidate, disk, status, args, ret, results, success_list,
                   epc_list, uuids_list, model_recombined, unconfigured, rm_calls,
                   strata_vars>>

\* Line 123: model_recombined.store_epc().
StoreEpc ==
    /\ pc = "store"
    /\ disk' = EpcFile(model_recombined.parts)
    /\ pc' = "return"
    /\ UNCHANGED <<i, raisedAt, kwargs_list, heap, tmp_dirs, fs, workers, configured,
                   consolidate, status, args, ret, results, success_list, epc_list,
                   uuids_list, model_recombined, unconfigured, rm_calls, strata_vars>>

\* Line 127: return success_list.
Return ==
    /\ pc = "return"
    /\ pc' = "done"
    /\ UNCHANGED <<i, raisedAt, kwargs_list, heap, tmp_dirs, fs, workers, configured,
                   consolidate, disk, status, args, ret, results, success_list,
                   epc_list, uuids_list, model_recombined, unconfigured, rm_calls,
                   strata_vars>>

Next ==
    \/ Alloc
    \/ AllocExit
    \/ Query
    \/ WaitForWorkers
    \/ RunSetNumbaThreads
    \/ Submit
    \/ SubmitExit
    \/ \E t \in Tasks : TaskFinish(t)
    \/ \E t \in Tasks : TaskError(t)
    \/ Await
    \/ AwaitExit
    \/ Sort
    \/ OpenDestination
    \/ Merge
    \/ MergeExit
    \/ Cleanup
    \/ CleanupExit
    \/ StoreEpc
    \/ Return

Spec == Init /\ [][Next]_vars

-----------------------------------------------------------------------------
(* Recombination on its own: lines 108-116 from the states line 105 leaves *)

\* What the result at one position names: no epc, or the epc of store 1 or 2
\* with all of its uuids or with the uuid of its shared-class part.  Two
\* positions may name the same epc.
MergeInputs ==
    {[epc |-> None, uuids |-> NoUuids]} \cup
    UNION {{[epc |-> e, uuids |-> NoUuids], [epc |-> e, uuids |-> SomeUuids(<<e>>)]} :
              e \in 1..2}

\* The state after line 105 for n sorted results that all report success.
InitMerge ==
    \E n \in 1..MaxN : \E in \in [1..n -> MergeInputs] :
    \E held \in {{}, PreExisting, PreHeld} :
        /\ pc = "merge"
        /\ i = 0
        /\ raisedAt = ""
        /\ kwargs_list = [p \in 1..n |-> p]
        /\ heap = [o \in 1..MaxN |->
                      IF o <= n THEN [tmp_dir |-> o, index |-> o - 1] ELSE NoArgs]
        /\ tmp_dirs = [p \in 1..n |-> p]
        /\ fs = {[path |-> <<d>>, kind |-> "dir"] : d \in 1..n}
        /\ workers = MaxWorkers
        /\ configured = MaxWorkers
        /\ consolidate \in BOOLEAN
        /\ disk = IF held = {} THEN NoFile ELSE EpcFile(held)
        /\ status = [t \in 1..MaxN |-> IF t <= n THEN "finished" ELSE "none"]
        /\ args = [t \in 1..MaxN |->
                      IF t <= n THEN [tmp_dir |-> t, index |-> t - 1] ELSE NoArgs]
        /\ ret = [t \in 1..MaxN |->
                     IF t <= n THEN [index |-> t - 1, success |-> TRUE,
                                     epc |-> in[t].epc, uuids |-> in[t].uuids]
                     ELSE NoRet]
        /\ results = [p \in 1..n |-> [index |-> p - 1, success |-> TRUE,
                                       epc |-> in[p].epc, uuids |-> in[p].uuids]]
        /\ success_list = [p \in 1..n |-> TRUE]
        /\ epc_list = [p \in 1..n |-> in[p].epc]
        /\ uuids_list = [p \in 1..n |-> in[p].uuids]
        /\ model_recombined = OpenModel(held)
        /\ unconfigured = {}
        /\ rm_calls = <<>>
        /\ NoStrata

NextMerge ==
    \/ Merge
    \/ MergeExit

SpecMerge == InitMerge /\ [][NextMerge]_vars

-----------------------------------------------------------------------------
(* The call on a cluster that workers join while the client is open *)

\* A worker registers with the scheduler of the cluster passed in at line 32,
\* after client.run of line 87 was issued; the cluster grows by at most one
\* worker beyond MaxWorkers.
WorkerJoin ==
    /\ pc \in {"submit", "await"}
    /\ workers <= MaxWorkers
    /\ workers' = workers + 1
    /\ UNCHANGED <<pc, i, raisedAt, kwargs_list, heap, tmp_dirs, fs, configured,
                   consolidate, disk, status, args, ret, results, success_list,
                   epc_list, uuids_list, model_recombined, unconfigured, rm_calls,
                   strata_vars>>

NextCluster ==
    \/ Next
    \/ WorkerJoin

SpecCluster == Init /\ [][NextCluster]_vars

-----------------------------------------------------------------------------
(* rm_tree alone, on a directory that other processes have filled *)

\* The names an entry of a directory may have.
EntryNames == {1, 2}

\* One empty directory, nothing else of a call.
InitRmTree ==
    /\ pc = "tree"
    /\ i = 0
    /\ raisedAt = ""
    /\ kwargs_list = <<>>
    /\ heap = [o \in 1..MaxN |-> NoArgs]
    /\ tmp_dirs = <<1>>
    /\ fs = {[path |-> <<1>>, kind |-> "dir"]}
    /\ workers = MaxWorkers
    /\ configured = MaxWorkers
    /\ consolidate = FALSE
    /\ disk = NoFile
    /\ status = [t \in 1..MaxN |-> "none"]
    /\ args = [t \in 1..MaxN |-> NoArgs]
    /\ ret = [t \in 1..MaxN |-> NoRet]
    /\ results = <<>>
    /\ success_list = <<>>
    /\ epc_list = <<>>
    /\ uuids_list = <<>>
    /\ model_recombined = NoModel
    /\ unconfigured = {}
    /\ rm_calls = <<>>
    /\ NoStrata

\* A process creates a file or a directory in a directory of the tree.
CreateEntry ==
    /\ pc = "tree"
    /\ \E d \in {e \in fs : e.kind = "dir" /\ Len(e.path) <= MaxDepth} :
       \E n \in EntryNames, k \in {"file", "dir"} :
           /\ ~\E e \in fs : e.path = Append(d.path, n)
           /\ fs' = fs \cup {[path |-> Append(d.path, n), kind |-> k]}
    /\ UNCHANGED <<pc, i, raisedAt, kwargs_list, heap, tmp_dirs, workers, configured,
                   consolidate, disk, status, args, ret, results, success_list,
                   epc_list, uuids_list, model_recombined, unconfigured, rm_calls,
                   strata_vars>>

\* rm_tree(path) on the directory; it returns or an OSError leaves it.
RmTreeCall ==
    /\ pc = "tree"
    /\ \E denied \in Refusals(fs, tmp_dirs[1]), rev \in BOOLEAN :
        LET r == rm_tree(fs, <<tmp_dirs[1]>>, denied, rev)
        IN  /\ fs' = r.fs
            /\ IF r.ok
               THEN pc' = "removed" /\ UNCHANGED raisedAt
               ELSE Raise("rm_tree")
    /\ rm_calls' = Append(rm_calls, Called(fs, tmp_dirs[1]))
    /\ UNCHANGED <<i, kwargs_list, heap, tmp_dirs, workers, configured, consolidate,
                   disk, status, args, ret, results, success_list, epc_list,
                   uuids_list, model_recombined, unconfigured, strata_vars>>

NextRmTree ==
    \/ CreateEntry
    \/ RmTreeCall

SpecRmTree == InitRmTree /\ [][NextRmTree]_vars

\* One empty temporary directory, and beside it a directory Outside that
\* holds a file and a directory with a file.
InitRmTreeLinks ==
    /\ pc = "tree"
    /\ i = 0
    /\ raisedAt = ""
    /\ kwargs_list = <<>>
    /\ heap = [o \in 1..MaxN |-> NoArgs]
    /\ tmp_dirs = <<1>>
    /\ fs = {[path |-> <<1>>, kind |-> "dir"],
             [path |-> Outside, kind |-> "dir"],
             [path |-> Append(Outside, 1), kind |-> "file"],
             [path |-> Append(Outside, 2), kind |-> "dir"],
             [path |-> Outside \o <<2, 1>>, kind |-> "file"]}
    /\ workers = MaxWorkers
    /\ configured = MaxWorkers
    /\ consolidate = FALSE
    /\ disk = NoFile
    /\ status = [t \in 1..MaxN |-> "none"]
    /\ args = [t \in 1..MaxN |-> NoArgs]
    /\ ret = [t \in 1..MaxN |-> NoRet]
    /\ results = <<>>
    /\ success_list = <<>>
    /\ epc_list = <<>>
    /\ uuids_list = <<>>
    /\ model_recombined = NoModel
    /\ unconfigured = {}
    /\ rm_calls = <<>>
    /\ NoStrata

\* A process creates, in a directory of the temporary directory's tree, a
\* file, a directory or a symbolic link to Outside.
CreateInTree ==
    /\ pc = "tree"
    /\ \E d \in {e \in Tree(fs, tmp_dirs[1]) : e.kind = "dir" /\ Len(e.path) <= MaxDepth} :
       \E n \in EntryNames, k \in {"file", "dir", "link"} :
           /\ ~\E e \in fs : e.path = Append(d.path, n)
           /\ fs' = fs \cup {[path |-> Append(d.path, n), kind |-> k]}
    /\ UNCHANGED <<pc, i, raisedAt, kwargs_list, heap, tmp_dirs, workers, configured,
                   consolidate, disk, status, args, ret, results, success_list,
                   epc_list, uuids_list, model_recombined, unconfigured, rm_calls,
                   strata_vars>>

NextRmTreeLinks ==
    \/ CreateInTree
    \/ RmTreeCall

SpecRmTreeLinks == InitRmTreeLinks /\ [][NextRmTreeLinks]_vars

-----------------------------------------------------------------------------
(* strata.py: is_equivalent *)

GeologicUnit == "GeologicUnitInterpretation"
StratigraphicUnit == "StratigraphicUnitInterpretation"

\* Deposition modes and units of length, by their position in
\* valid_deposition_modes and in wam.valid_uoms(quantity = 'length').
DepositionModes == {1, 2}
ValidUoms == {1, 2}

\* An object as __init__ leaves it; root is the citation title of its xml
\* root, None while it has no xml.  A GeologicUnitInterpretation has no
\* deposition mode and no thicknesses (None here, never read).
Interp(cls, uuid, feature, title, mode, min, max, uom) ==
    [cls |-> cls, uuid |-> uuid, geologic_unit_feature |-> feature, root |-> title,
     extra_metadata |-> None, composition |-> None, material_implacement |-> None,
     domain |-> "time", has_occurred_during |-> <<None, None>>,
     deposition_mode |-> mode, min_thickness |-> min, max_thickness |-> max,
     thickness_uom |-> uom]

\* isinstance(other, type(self)): StratigraphicUnitInterpretation derives
\* from GeologicUnitInterpretation.
IsInstanceOfTypeOfSelf(self, other) ==
    self.cls = GeologicUnit \/ other.cls = StratigraphicUnit

\* bu.matching_uuids.
matching_uuids(a, b) == a = b

\* Lines 80-87, for features that differ in uuid and title: a feature is
\* equivalent to itself only.
feature_is_equivalent(f, g) == g # None /\ f = g

\* rqo.equivalent_extra_metadata and rqo.equivalent_chrono_pairs.
equivalent_extra_metadata(a, b) == a.extra_metadata = b.extra_metadata
equivalent_chrono_pairs(p, q) == p = q

\* Lines 191-213, for an other that is not None.
GeologicUnitInterpretation_is_equivalent(self, other, check_extra_metadata) ==
    IF ~IsInstanceOfTypeOfSelf(self, other) THEN FALSE
    ELSE IF matching_uuids(self.uuid, other.uuid) THEN TRUE
    ELSE IF /\ self.geologic_unit_feature # None
            /\ ~feature_is_equivalent(self.geologic_unit_feature,
                                       other.geologic_unit_feature)
         THEN FALSE
    ELSE IF self.geologic_unit_feature = None /\ other.geologic_unit_feature # None
         THEN FALSE
    ELSE IF self.root # None /\ other.root # None /\ self.root # other.root THEN FALSE
    ELSE IF (self.root # None) # (other.root # None) THEN FALSE
    ELSE IF check_extra_metadata /\ ~equivalent_extra_metadata(self, other) THEN FALSE
    ELSE /\ self.composition = other.composition
         /\ self.material_implacement = other.material_implacement
         /\ self.domain = other.domain
         /\ equivalent_chrono_pairs(self.has_occurred_during, other.has_occurred_during)

\* Lines 336-342; super().is_equivalent(other) is called without
\* check_extra_metadata.
StratigraphicUnitInterpretation_is_equivalent(self, other, check_extra_metadata) ==
    IF ~GeologicUnitInterpretation_is_equivalent(self, other, TRUE) THEN FALSE
    ELSE IF self.deposition_mode # None /\ other.deposition_mode # None
         THEN self.deposition_mode = other.deposition_mode
    ELSE TRUE

\* self.is_equivalent(other): the method of the class of self.
is_equivalent(self, other) ==
    IF self.cls = StratigraphicUnit
    THEN StratigraphicUnitInterpretation_is_equivalent(self, other, TRUE)
    ELSE GeologicUnitInterpretation_is_equivalent(self, other, TRUE)

\* No object of strata.py and no call of function_multiprocessing.
InitStrata ==
    /\ i = 0
    /\ raisedAt = ""
    /\ kwargs_list = <<>>
    /\ heap = [o \in 1..MaxN |-> NoArgs]
    /\ tmp_dirs = <<>>
    /\ fs = {}
    /\ workers = MaxWorkers
    /\ configured = MaxWorkers
    /\ consolidate = FALSE
    /\ disk = NoFile
    /\ status = [t \in 1..MaxN |-> "none"]
    /\ args = [t \in 1..MaxN |-> NoArgs]
    /\ ret = [t \in 1..MaxN |-> NoRet]
    /\ results = <<>>
    /\ success_list = <<>>
    /\ epc_list = <<>>
    /\ uuids_list = <<>>
    /\ model_recombined = NoModel
    /\ unconfigured = {}
    /\ rm_calls = <<>>

InitEquivalent ==
    /\ InitStrata
    /\ pc = "construct"
    /\ NoStrata

\* Lines 148-173 and 276-304: an object of either class is constructed.
Construct ==
    /\ pc = "construct"
    /\ Len(interps) < MaxInterps
    /\ \E cls \in {GeologicUnit, StratigraphicUnit}, uuid \in 1..MaxInterps,
          feature \in {None, 1}, title \in {None, 1} :
       \E mode \in IF cls = StratigraphicUnit THEN {None} \cup DepositionModes ELSE {None} :
           interps' = Append(interps, Interp(cls, uuid, feature, title, mode,
                                             None, None, None))
    /\ UNCHANGED <<pc, i, raisedAt, kwargs_list, heap, tmp_dirs, fs, workers, configured,
                   consolidate, disk, status, args, ret, results, success_list,
                   epc_list, uuids_list, model_recombined, unconfigured, rm_calls,
                   answers, xml, loaded>>

\* a.is_equivalent(b) is called for every two of the objects.
CallIsEquivalent ==
    /\ pc = "construct"
    /\ Len(interps) = MaxInterps
    /\ answers' = [p \in 1..MaxInterps |->
                       [q \in 1..MaxInterps |-> is_equivalent(interps[p], interps[q])]]
    /\ pc' = "compared"
    /\ UNCHANGED <<i, raisedAt, kwargs_list, heap, tmp_dirs, fs, workers, configured,
                   consolidate, disk, status, args, ret, results, success_list,
                   epc_list, uuids_list, model_recombined, unconfigured, rm_calls,
                   interps, xml, loaded>>

NextEquivalent ==
    \/ Construct
    \/ CallIsEquivalent

SpecEquivalent == InitEquivalent /\ [][NextEquivalent]_vars

-----------------------------------------------------------------------------
(* strata.py: create_xml and _load_from_xml *)

\* Thicknesses an object is constructed with, in tenths of the unit.
Thicknesses == {5, 25, 120, 1005}

\* str(thickness): the decimal digits of the tenths, most significant first;
\* the text of 2.5 is the digits 2 and 5 around the point.
RECURSIVE Digits(_)
Digits(n) == IF n < 10 THEN <<n>> ELSE Append(Digits(n \div 10), n % 10)

\* float(text).
RECURSIVE Number(_)
Number(text) ==
    IF Len(text) = 0 THEN 0
    ELSE 10 * Number(SubSeq(text, 1, Len(text) - 1)) + text[Len(text)]

\* rqet.SubElement: a node without text and without attributes.
SubElement == [present |-> TRUE, text |-> <<>>, uom |-> None]

\* The object create_xml and _load_from_xml are called for.
Self == interps[1]

InitXml ==
    /\ InitStrata
    /\ pc = "interp"
    /\ \E min \in {None} \cup Thicknesses, max \in {None} \cup Thicknesses,
          uom \in {None} \cup ValidUoms, feature \in {None, 1} :
           \* lines 304-305: a thickness needs a valid unit of measure
           /\ (min # None \/ max # None) => uom \in ValidUoms
           /\ interps = <<Interp(StratigraphicUnit, 1, feature, None, None, min, max, uom)>>
    /\ answers = <<>>
    /\ xml = NoXml
    /\ loaded = NoLoaded

\* Lines 344-377 with the superclass part of lines 225-238: the reference to
\* the feature and the thickness nodes.  Line 374 sets the uom attribute on
\* min_thick_node, a local that is unbound when min_thickness is None.
CreateXml ==
    /\ pc = "interp"
    /\ LET gu == [xml EXCEPT !.InterpretedFeature = Self.geologic_unit_feature]
           min_thick_node ==
               [SubElement EXCEPT !.uom = Self.thickness_uom,
                                  !.text = Digits(Self.min_thickness)]
           max_thick_node == SubElement
       IN  IF Self.geologic_unit_feature = None
           THEN /\ Raise("create_xml")
                /\ xml' = xml
           ELSE IF (Self.min_thickness # None \/ Self.max_thickness # None)
                   /\ Self.thickness_uom \notin ValidUoms
           THEN /\ Raise("create_xml")
                /\ xml' = gu
           ELSE IF Self.max_thickness = None
           THEN /\ xml' = [gu EXCEPT !.MinThickness =
                               IF Self.min_thickness # None THEN min_thick_node ELSE NoNode]
                /\ pc' = "xml"
                /\ UNCHANGED raisedAt
           ELSE IF Self.min_thickness = None
           THEN /\ xml' = [gu EXCEPT !.MaxThickness = max_thick_node]
                /\ Raise("create_xml")
           ELSE /\ xml' = [gu EXCEPT !.MinThickness = min_thick_node,
                                     !.MaxThickness = [max_thick_node EXCEPT
                                                          !.text = Digits(Self.max_thickness)]]
                /\ pc' = "xml"
                /\ UNCHANGED raisedAt
    /\ UNCHANGED <<i, kwargs_list, heap, tmp_dirs, fs, workers, configured,
                   consolidate, disk, status, args, ret, results, success_list,
                   epc_list, uuids_list, model_recombined, unconfigured, rm_calls,
                   interps, answers, loaded>>

\* Lines 321-334 for one node: the attributes after it, ok FALSE when
\* thick_node.attrib['uom'] or the assertion on the unit raises.
LoadThickness(state, node, min_max) ==
    IF ~state.ok \/ ~node.present THEN state
    ELSE LET thick == Number(node.text)
             set == IF min_max = "Min"
                    THEN [state EXCEPT !.min_thickness = thick]
                    ELSE [state EXCEPT !.max_thickness = thick]
         IN  IF node.uom = None THEN [set EXCEPT !.ok = FALSE]
             ELSE IF set.thickness_uom = None THEN [set EXCEPT !.thickness_uom = node.uom]
             ELSE [set EXCEPT !.ok = set.thickness_uom = node.uom]

\* Lines 311-334: a second object reads the tree.  Lines 317-319 call
\* StratigraphicUnitFeature with the keyword feature_name, which its __init__
\* (lines 60-67) does not take: the call raises when the tree refers to a
\* feature, before the thicknesses are read.
LoadFromXml ==
    /\ pc = "xml"
    /\ LET start == [min_thickness |-> None, max_thickness |-> None,
                     thickness_uom |-> None, ok |-> TRUE]
           after == IF xml.InterpretedFeature # None
                    THEN [start EXCEPT !.ok = FALSE]
                    ELSE LoadThickness(LoadThickness(start, xml.MinThickness, "Min"),
                                       xml.MaxThickness, "Max")
       IN  /\ loaded' = [min_thickness |-> after.min_thickness,
                         max_thickness |-> after.max_thickness,
                         thickness_uom |-> after.thickness_uom]
           /\ IF after.ok
              THEN pc' = "loaded" /\ UNCHANGED raisedAt
              ELSE Raise("_load_from_xml")
    /\ UNCHANGED <<i, kwargs_list, heap, tmp_dirs, fs, workers, configured,
                   consolidate, disk, status, args, ret, results, success_list,
                   epc_list, uuids_list, model_recombined, unconfigured, rm_calls,
                   interps, answers, xml>>

NextXml ==
    \/ CreateXml
    \/ LoadFromXml

SpecXml == InitXml /\ [][NextXml]_vars

-----------------------------------------------------------------------------
(* Properties of function_multiprocessing *)

Returned == pc = "done"

\* The call has left the with block of line 85.
Collected == pc \in {"sort", "open", "merge", "cleanup", "store", "return", "done"}

\* The directories mkdtemp has created for this call.
Allocated == {tmp_dirs[p] : p \in 1..Len(tmp_dirs)}

\* The parts of its store that the result of future t selects for import.
Selected(t) ==
    IF ret[t].epc = None THEN {}
    ELSE {p \in Store(ret[t].epc) : ret[t].uuids.none \/
              \E k \in 1..Len(ret[t].uuids.ids) : ret[t].uuids.ids[k] = p.uuid}

\* The destination held nothing before the call.
FreshDestination == PreExisting \cap disk.parts = {}

\* C1: when the call returns, it returns exactly N booleans and the boolean at
\* position p is the success the function called with kwargs_list[p] reported.
C1_OutcomesInInputOrder ==
    Returned =>
        /\ Len(success_list) = N
        /\ \A t \in Tasks : success_list[t] = ret[t].success

\* C2: with consolidate, when the call has returned into a fresh destination and
\* two futures a < b each reported success and selected a part of the shared
\* equivalence class, no future before a having selected one, the part of that
\* class the destination holds is the one of future a.
C2_LowestIndexSurvives ==
    (Returned /\ consolidate /\ FreshDestination) =>
        \A a, b \in Tasks :
            (/\ a < b
             /\ ret[a].success /\ \E p \in Selected(a) : p.cls = 0
             /\ ret[b].success /\ \E p \in Selected(b) : p.cls = 0
             /\ \A c \in 1..(a - 1) : \A p \in Selected(c) : p.cls # 0)
            => \A q \in disk.parts : q.cls = 0 => q.src = a

\* C3: when the call has returned, no directory it allocated exists, nor
\* anything below one.
C3_ScratchGoneAfterReturn ==
    Returned => /\ Cardinality(Allocated) = N
                /\ \A d \in Allocated : Tree(fs, d) = {}

\* A return after futures that failed and futures that succeeded and wrote
\* files into their directories.
C3_Witness ==
    /\ Returned
    /\ N >= 2
    /\ \E t \in Tasks : ~ret[t].success /\ ret[t].epc = None
    /\ \E t \in Tasks : ret[t].success /\ ret[t].epc # None

\* C4: when recombination raises (opening the destination, opening a store,
\* copying a part), every allocated directory has been removed by the time
\* control has left the call.
C4_CleanupWhenRecombinationRaises ==
    (pc = "raised" /\ raisedAt \in {"open", "merge"}) =>
        \A d \in Allocated : Tree(fs, d) = {}

\* C5: an exception of a task function never aborts the call, and the returned
\* vector holds false at the position of a future whose function raised.
C5_TaskExceptionStaysLocal ==
    /\ raisedAt # "await"
    /\ Returned => \A t \in Tasks : status[t] = "error" => ~success_list[t]

\* C6: the destination never holds a part, nor an alias of a part, written by a
\* future that reported success = false.
C6_FailedTaskNotMerged ==
    \A t \in Tasks :
        (status[t] = "finished" /\ ~ret[t].success) =>
            /\ \A q \in model_recombined.parts : q.src # t
            /\ \A al \in model_recombined.alias : \A p \in Store(t) : al[1] # p.uuid

\* C7: the returned vector is true at a position exactly when the future of
\* that position reported success and its parts were merged, and the vector is
\* never true at the position whose merge failed.
C7_TrueIffSuccessAndMerged ==
    /\ Returned => \A t \in Tasks : success_list[t] = ret[t].success
    /\ (pc = "raised" /\ raisedAt = "merge") => ~success_list[i + 1]

\* C8: a merge failure never aborts the call: it is recorded as false and the
\* later results are still merged.
C8_MergeFailureStaysLocal ==
    raisedAt # "merge"

\* Two results share an index, or the indices are not exactly 0 .. N - 1.
Malformed ==
    \/ \E p, q \in 1..Len(results) : p # q /\ results[p].index = results[q].index
    \/ {results[p].index : p \in 1..Len(results)} # 0..(N - 1)

\* C9: once the results are collected with malformed indices, no part is merged
\* into the destination and the call goes on neither to cleanup nor to storing
\* nor to returning.
C9_MalformedBatchFailsFast ==
    (Collected /\ Malformed) =>
        /\ model_recombined.parts \subseteq PreExisting
        /\ model_recombined.alias = {}
        /\ pc \in {"sort", "open", "merge"}

\* C10: while a submitted future is unresolved, or a future is yet to be
\* submitted, the destination is not open in memory and the thread is at no
\* statement that opens, fills or stores it.
C10_JoinBarrier ==
    (\E t \in Tasks : status[t] \in {"none", "running"}) =>
        /\ ~model_recombined.open
        /\ pc \notin {"merge", "cleanup", "store", "return", "done"}
        /\ (pc = "raised" => raisedAt \notin {"open", "merge", "cleanup"})

\* The destination is open and holds a part of a future, after two or more
\* futures have resolved.
C10_Witness ==
    /\ N >= 2
    /\ model_recombined.open
    /\ \E q \in model_recombined.parts : q.src \in Tasks
    /\ \A t \in Tasks : status[t] = "finished"

\* The result at position p + 1 names the epc and the uuids that an earlier
\* position named.
MergedBefore(p) ==
    /\ epc_list[p + 1] # None
    /\ \E q \in 1..p : /\ epc_list[q] = epc_list[p + 1]
                       /\ uuids_list[q] = uuids_list[p + 1]

\* C11: with consolidate, an iteration of the merge loop that merges an epc and
\* uuids which an earlier iteration merged leaves the parts of the destination
\* as they were (and so their number).
C11_RemergeAddsNothing ==
    [][(/\ consolidate
        /\ pc = "merge" /\ pc' = "merge"
        /\ i < Len(epc_list) /\ i' = i + 1
        /\ MergedBefore(i))
       => model_recombined'.parts = model_recombined.parts]_vars

\* The merge loop has merged the same epc and uuids a second time, with
\* consolidate, and the destination holds a part of that epc.
C11_Witness ==
    /\ consolidate
    /\ pc = "merge"
    /\ i >= 2
    /\ MergedBefore(i - 1)
    /\ \E q \in model_recombined.parts : q.src = epc_list[i]

\* Futures a and b are different and each selected the shared-class part of
\* its own store.
BothSelectShared(a, b) ==
    /\ a # b
    /\ \E p \in Selected(a) : p.cls = 0 /\ p.src = a
    /\ \E p \in Selected(b) : p.cls = 0 /\ p.src = b

InMergeOrder == sorted([t \in 1..N |-> ret[t]])

\* The destination after the results rs have been merged one after the other
\* into model m.
RECURSIVE MergedInOrder(_, _, _)
MergedInOrder(m, rs, cons) ==
    IF rs = <<>> THEN m
    ELSE LET r == Head(rs)
             other == Store(r.epc)
         IN  IF r.epc = None THEN MergedInOrder(m, Tail(rs), cons)
             ELSE MergedInOrder(CopyUuids(m, other, UuidsToCopy(other, r.uuids), cons).m,
                                Tail(rs), cons)

\* C13: with consolidate and a fresh destination, the parts the destination
\* holds when the call has returned (their number, and the source of the
\* surviving part of every equivalence class) are a function of what the
\* functions returned alone: the merge of their results in index order,
\* whatever the order in which the futures resolved.
C13_DestinationIndependentOfCompletionOrder ==
    (Returned /\ consolidate /\ FreshDestination) =>
        disk.parts = MergedInOrder(OpenModel({}), InMergeOrder, TRUE).parts

\* A return with consolidate into a fresh destination after two futures
\* selected equivalent parts.
C13_Witness ==
    /\ Returned
    /\ consolidate
    /\ FreshDestination
    /\ \E a, b \in Tasks : BothSelectShared(a, b)

\* A batch of three distinct dicts whose functions returned: the first and the
\* third a store from which each selects one object equivalent to the
\* other's, the second a failure without epc.
ScenarioBatch ==
    /\ kwargs_list = <<1, 2, 3>>
    /\ ret[1] = [index |-> 0, success |-> TRUE, epc |-> 1, uuids |-> SomeUuids(<<1>>)]
    /\ ret[2] = [index |-> 1, success |-> FALSE, epc |-> None, uuids |-> NoUuids]
    /\ ret[3] = [index |-> 2, success |-> TRUE, epc |-> 3, uuids |-> SomeUuids(<<3>>)]

\* C14: when the call returns for a batch of three whose second function
\* reported failure without epc and whose first and third each produced one
\* object equivalent to the other's, with consolidate and an initially empty
\* destination, it returns [True, False, True] and the destination holds
\* exactly one object, the one of the first function's epc.
C14_ScenarioOneSurvivor ==
    (Returned /\ consolidate /\ FreshDestination /\ ScenarioBatch) =>
        /\ success_list = <<TRUE, FALSE, TRUE>>
        /\ disk.parts = {[uuid |-> 1, cls |-> 0, src |-> 1, refs |-> {}]}

\* The scenario has returned.
C14_Witness == Returned /\ consolidate /\ FreshDestination /\ ScenarioBatch

C17_EveryTaskOnConfiguredWorker == unconfigured = {}

\* C18: once every submitted future has resolved and the call has ended, by
\* returning or by raising, rm_tree has been called on every directory of
\* tmp_dirs.
C18_CleanupAttemptedBeforeLeaving ==
    (pc \in {"done", "raised"} /\ \A t \in Tasks : status[t] \in {"finished", "error"}) =>
        \/ pc = "done"
        \/ Len(tmp_dirs) = 0
        \/ raisedAt = "cleanup" /\ i + 1 = Len(tmp_dirs)

\* C19: no entry of a temporary directory is removed before store_epc has
\* written the destination.
C19_RemovalAfterStoreEpc ==
    (\E d \in Allocated : [path |-> <<d>>, kind |-> "dir"] \notin fs) =>
        pc \in {"return", "done"}

\* C20: an rm_tree that fails does not make the call raise.
C20_CleanupFailureNotEscalated == raisedAt # "cleanup"

\* C21: store_epc writes a file that holds every part the file at
\* recombined_epc held when the call was entered (none if there was no file)
\* and, beyond those, only parts of the epcs the functions returned.
C21_OpenOrCreateAppends ==
    [][(pc = "store" /\ pc' = "return") =>
           /\ disk'.exists
           /\ disk.parts \subseteq disk'.parts
           /\ \A p \in disk'.parts \ disk.parts :
                  \E t \in Tasks : /\ ret[t].epc # None
                                   /\ p.src = ret[t].epc
                                   /\ \E o \in Selected(t) : o.uuid = p.uuid]_vars

\* The destination was written for a call that found a file at
\* recombined_epc and merged a part into it.
C21_Witness ==
    /\ pc = "return"
    /\ PreExisting \subseteq disk.parts
    /\ \E p \in disk.parts : \E t \in Tasks : p.src = ret[t].epc /\ ret[t].epc # None

\* The uuids model m answers for: those of its parts and those noted as
\* equivalent to one of its parts.
Known(m) == {p.uuid : p \in m.parts} \cup {al[1] : al \in m.alias}

\* The uuids the result at position p of the sorted lists asks to import.
Requested(p) ==
    IF uuids_list[p].none THEN {o.uuid : o \in Store(epc_list[p])}
    ELSE {uuids_list[p].ids[k] : k \in 1..Len(uuids_list[p].ids)}

\* C22: an iteration of the merge loop that completes for a result with an
\* epc makes the destination answer for exactly the uuids of the result's
\* uuid list, or for all uuids of the epc when the list is None, and for no
\* other uuid it did not answer for before.
C22_ImportsExactlyRequested ==
    [][(pc = "merge" /\ pc' = "merge" /\ i < Len(epc_list) /\ i' = i + 1
            /\ epc_list[i + 1] # None) =>
           Known(model_recombined') = Known(model_recombined) \cup Requested(i + 1)]_vars

\* A result with a uuid list was merged: the listed part of its epc is in the
\* destination, the other part of its epc is not.
C22_Witness ==
    /\ pc = "merge"
    /\ i >= 1
    /\ epc_list[i] # None
    /\ ~uuids_list[i].none
    /\ \E p \in model_recombined.parts : p.src = epc_list[i]
    /\ \E o \in Store(epc_list[i]) : o.uuid \notin Known(model_recombined)

\* C23: the query of lines 76-77 never makes the call raise, whatever the
\* number of workers registered with the cluster.
C23_QueryNeverRaises == raisedAt # "query"

\* C24: a call of rm_tree on a directory holding files and directories, to
\* any depth and created by any process, ends, and unless it leaves a file
\* the OS refused to unlink it returns with no entry of the tree left, the
\* directory included.
C24_RmTreeRemovesAll ==
    [][(pc = "tree" /\ pc' # "tree") =>
           IF \E e \in fs' : e.kind = "file"
           THEN pc' = "raised"
           ELSE pc' = "removed" /\ fs' = {}]_vars

\* rm_tree has returned for a directory that held two entries at the deepest
\* level; nothing is left.
C24_Witness ==
    /\ pc = "removed"
    /\ fs = {}
    /\ \E p, q \in rm_calls[1].held :
           /\ Len(p) = MaxDepth + 1
           /\ Len(q) = Len(p)
           /\ p # q

\* p is q or leads to q.
IsPrefix(p, q) == Len(p) <= Len(q) /\ SubSeq(q, 1, Len(p)) = p

\* C25: when the OS refuses the unlink of one file, rm_tree still removes
\* every other entry it can: what is left is that file and the directories
\* above it.
C25_SiblingsStillRemoved ==
    raisedAt = "rm_tree" =>
        \A a, b \in fs : IsPrefix(a.path, b.path) \/ IsPrefix(b.path, a.path)

\* C26: the future submitted for position p of kwargs_list (counted from 0)
\* carries index = p, also when one dict object is at several positions.
C26_SubmittedIndexIsPosition ==
    \A t \in Tasks : status[t] # "none" => args[t].index = t - 1

\* C27: no two futures are submitted with the same tmp_dir, and each is
\* submitted with the directory created for its position.
C27_ScratchExclusive ==
    /\ \A a, b \in Tasks :
           (a # b /\ status[a] # "none" /\ status[b] # "none") =>
               args[a].tmp_dir # args[b].tmp_dir
    /\ \A t \in Tasks : status[t] # "none" => args[t].tmp_dir = tmp_dirs[t]

\* C28: the destination changes during recombination only by the copy of
\* the one result the loop is at; every result of lower index is at an
\* earlier position, so all its copies are done, every result of higher index
\* at a later one, so none of its copies has begun; and the loop then moves
\* on by one position or the call raises.
C28_MergeSequentialInIndexOrder ==
    [][(pc = "merge" /\ model_recombined' # model_recombined) =>
           /\ i < Len(results)
           /\ epc_list[i + 1] # None
           /\ \A u \in Known(model_recombined') \ Known(model_recombined) :
                  \E o \in Store(epc_list[i + 1]) : o.uuid = u
           /\ \A q \in 1..Len(results) :
                  /\ results[q].index < results[i + 1].index => q <= i
                  /\ results[q].index > results[i + 1].index => q > i + 1
           /\ (pc' = "merge" /\ i' = i + 1) \/ pc' = "raised"]_vars

\* Two results of different index have both been merged.
C28_Witness ==
    /\ pc = "merge"
    /\ \E p, q \in 1..i :
           /\ results[p].index < results[q].index
           /\ epc_list[p] # None
           /\ epc_list[q] # None
           /\ \E a, b \in model_recombined.parts : a.src = epc_list[p] /\ b.src = epc_list[q]

\* The directories rm_tree has been called on.
Released == {rm_calls[k].dir : k \in 1..Len(rm_calls)}

\* The loop of lines 120-121 has been entered and left, by its end or by an
\* exception.
CleanupLeft == pc \in {"store", "return", "done"} \/ raisedAt = "cleanup"

\* C29: rm_tree is never called twice on one directory of tmp_dirs, and once
\* the cleanup loop has been left it has been called on every one of them.
C29_ReleasedExactlyOnce ==
    /\ \A a, b \in 1..Len(rm_calls) : rm_calls[a].dir = rm_calls[b].dir => a = b
    /\ CleanupLeft => Released = Allocated

\* C30: the destination file is not written before the merge loop has
\* processed the last result, and a call that has processed the last result
\* does not end without having written it, whatever N and the results are.
C30_PersistedOnceAfterLastResult ==
    /\ pc \notin {"return", "done"} => disk \in {NoFile, EpcFile(PreExisting)}
    /\ (pc \in {"done", "raised"} /\ model_recombined.open /\ raisedAt # "merge") =>
           /\ pc = "done"
           /\ disk = EpcFile(model_recombined.parts)

\* C31: when call.result() has raised, no model is open for recombined_epc
\* and the file there is as it was when the call was entered.
C31_AwaitFailureLeavesDestination ==
    [][raisedAt' = "await" =>
           /\ pc' = "raised"
           /\ model_recombined' = NoModel
           /\ disk' = disk
           /\ disk \in {NoFile, EpcFile(PreExisting)}]_vars

\* call.result() has raised while another future had returned an epc and a
\* file exists at recombined_epc.
C31_Witness ==
    /\ raisedAt = "await"
    /\ disk = EpcFile(PreExisting)
    /\ \E t \in Tasks : status[t] = "finished" /\ ret[t].epc # None

\* C32: a future is submitted only when all N directories have been created,
\* the thread waits for a result only when all N futures have been
\* submitted, and it takes the results in submission order.
C32_ForkBeforeJoin ==
    /\ (\E t \in Tasks : status[t] # "none") => Len(tmp_dirs) = N
    /\ (pc = "await" \/ raisedAt = "await" \/ Len(results) > 0) =>
           \A t \in Tasks : status[t] # "none"
    /\ pc = "await" =>
           /\ Len(results) = i
           /\ \A p \in 1..i : results[p] = ret[p]

\* The thread has taken the first result and waits for the second while a
\* later future is still running.
C32_Witness ==
    /\ pc = "await"
    /\ i = 1
    /\ status[1] = "finished"
    /\ \E t \in Tasks : t > 1 /\ status[t] = "running"

\* C33: the merge loop passes a result that reports success and names no epc
\* without opening a model, copying anything or raising: the destination and
\* the file at recombined_epc stay as they are, and the result's entry of
\* success_list is True.
C33_SuccessWithoutEpcChangesNothing ==
    [][(pc = "merge" /\ i < Len(results) /\ results[i + 1].success
            /\ results[i + 1].epc = None) =>
           /\ pc' = "merge"
           /\ i' = i + 1
           /\ model_recombined' = model_recombined
           /\ disk' = disk
           /\ success_list'[i + 1] = TRUE]_vars

\* The loop has passed such a result after it merged the epc of another.
C33_Witness ==
    /\ pc = "merge"
    /\ i >= 2
    /\ results[i].success
    /\ results[i].epc = None
    /\ model_recombined.parts # {}
    /\ \E p \in 1..(i - 1) : epc_list[p] # None

\* C34: a call of rm_tree on a directory changes no file and no directory
\* outside the tree of that directory, also when the tree holds symbolic
\* links to a directory outside it.
C34_OutsideUnchanged ==
    [][(pc = "tree" /\ pc' # "tree") => Tree(fs', Outside[1]) = Tree(fs, Outside[1])]_vars

\* C35: a.is_equivalent(b) equals b.is_equivalent(a) for all objects a and b
\* of class GeologicUnitInterpretation or StratigraphicUnitInterpretation;
\* stated for objects of different uuids, as objects of two stores are.
C35_IsEquivalentSymmetric ==
    pc = "compared" =>
        \A p, q \in 1..MaxInterps :
            interps[p].uuid # interps[q].uuid => answers[p][q] = answers[q][p]

\* C36: for StratigraphicUnitInterpretation objects a, b and c of different
\* uuids, a.is_equivalent(b) and b.is_equivalent(c) imply a.is_equivalent(c).
C36_IsEquivalentTransitive ==
    pc = "compared" =>
        \A p, q, r \in 1..MaxInterps :
            (/\ \A x \in {p, q, r} : interps[x].cls = StratigraphicUnit
             /\ interps[p].uuid # interps[q].uuid
             /\ interps[q].uuid # interps[r].uuid
             /\ interps[p].uuid # interps[r].uuid
             /\ answers[p][q]
             /\ answers[q][r]) => answers[p][r]

\* C37: for every StratigraphicUnitInterpretation that has its feature, with
\* any combination of min_thickness and max_thickness and a valid
\* thickness_uom, create_xml completes, every thickness node written carries
\* the uom attribute, and _load_from_xml restores the same min_thickness,
\* max_thickness and, when a thickness is set, thickness_uom.
C37_ThicknessRoundTrip ==
    Self.geologic_unit_feature # None =>
        /\ raisedAt = ""
        /\ pc \in {"xml", "loaded"} =>
               \A node \in {xml.MinThickness, xml.MaxThickness} :
                   node.present => node.uom = Self.thickness_uom
        /\ pc = "loaded" =>
               /\ loaded.min_thickness = Self.min_thickness
               /\ loaded.max_thickness = Self.max_thickness
               /\ (Self.min_thickness # None \/ Self.max_thickness # None) =>
                      loaded.thickness_uom = Self.thickness_uom

====
